---- MODULE Spec2Model ----
(***************************************************************************)
(* Model of the RFD900 command-mode session: ModemClient (modem_client.py) *)
(* and the get_modem_response wrapper (rfd-config.py).                     *)
(*                                                                         *)
(* Text is modelled character by character: a Python str / bytes value is  *)
(* a sequence of one-character strings.  Time is counted in ticks of 0.1 s *)
(* (the polling sleep of both loops).                                      *)
(*                                                                         *)
(* The port is the environment: every port operation may raise             *)
(* serial.SerialException, the modem answers the probe with chunks of      *)
(* bytes and a request with lines.  readline() is taken to return whole    *)
(* lines; bytes that do not decode are not modelled.  `trace` lists the    *)
(* port operations and the sleeps between them; the sleeps of the polling  *)
(* loops are counted in `elapsed`.                                         *)
(***************************************************************************)
EXTENDS Integers, Sequences, FiniteSets, TLC

VARIABLES
    pc,            \* position: "new", "loop", "setup", "probe", "entered", "ready", "recv", "failed"
    attempt,       \* loop variable of enter_command_mode
    ser,           \* the local handle of the with-block in enter_command_mode (0 = none)
    serial,        \* self.serial (0 = None)
    open,          \* set of transport handles that are currently open
    entryHandle,   \* the handle on which command-mode entry succeeded (0 = none)
    trace,         \* port events of the current operation (entry attempt, send or close)
    rxbytes,       \* bytes waiting in the input buffer during the probe
    chunks,        \* number of chunks the modem sent during this attempt
    probeResponse, \* local `response` of enter_command_mode
    elapsed,       \* time.time() - start of the running polling loop, in ticks
    constructed,   \* outcome of ModemClient.__init__
    entered,       \* number of times entry reported success
    attemptsMade,  \* entry attempts started by the running enter_command_mode
    matched,       \* TRUE once a probe response matched
    slept,         \* ticks slept since the previous entry attempt ended
    sent,          \* bytes the modem sent during this entry attempt
    command,       \* argument of the running / last send
    via,           \* "send" (direct) or "wrapper" (get_modem_response)
    inbuf,         \* lines waiting in the input buffer of the open handle
    late,          \* a line was delivered after the read loop had started sleeping
    received,      \* raw lines readline() returned in this exchange
    response,      \* local `response` of send
    outcome,       \* what send() returned or raised
    visible,       \* what the caller of send / get_modem_response observes
    endClass,      \* how the exchange ended
    faulted,       \* a serial.SerialException was raised in this session
    closeCalled,   \* close() has been called
    reopened,      \* the last send() opened a new handle
    lastOp,        \* the operation the caller made last: "none", "send" or "close"
    afterSoft,     \* the running / last send directly followed a rejected or unterminated one
    setStep,       \* request of the running do_set: 0 (none), 1, 2 or 3
    setReg,        \* register name do_set resolved
    setVal,        \* value do_set parsed
    allOK,         \* every exchange of the running do_set ended with OK so far
    issued,        \* requests the running / last do_set handed to the client
    printed        \* what the last shell command printed

vars == <<pc, attempt, ser, serial, open, entryHandle, trace, rxbytes, chunks,
          probeResponse, elapsed, constructed, entered, attemptsMade, matched,
          command, via, inbuf, late, received, response,
          outcome, visible, endClass, faulted, closeCalled, reopened,
          lastOp, afterSoft, slept, sent,
          setStep, setReg, setVal, allOK, issued, printed>>

entryVars == <<rxbytes, chunks, probeResponse, constructed, entered, attemptsMade, matched,
               entryHandle, attempt, ser, slept, sent>>
shellVars == <<setStep, setReg, setVal, allOK, issued, printed>>
sendVars  == <<command, via, inbuf, late, received, response,
               outcome, visible, endClass, reopened, lastOp, afterSoft>>

----------------------------------------------------------------------------
(* Bounds of the model *)

\* per-command timeout (default_timeout) in ticks; the CLI default is 1.0 s
DefaultTimeout == 2
\* lines the modem delivers during one exchange
MaxLines == 3
\* chunks the modem delivers during one entry attempt
MaxChunks == 2
\* lines the modem sends in answer to one request of a set command
MaxAnswers == 2

(* Program constants, in ticks of 0.1 s *)
max_attempts  == 3
DtrPause      == 1
ProbeDeadline == 10
Backoff       == 10
PollSleep     == 1

----------------------------------------------------------------------------
(* Text *)

SP == " "
CR == "CR"
LF == "LF"
CRLF == <<CR, LF>>

Whitespace == {SP, CR, LF, "TAB"}

RECURSIVE LStrip(_)
LStrip(s) == IF s # <<>> /\ Head(s) \in Whitespace THEN LStrip(Tail(s)) ELSE s

RECURSIVE RStrip(_)
RStrip(s) == IF s # <<>> /\ s[Len(s)] \in Whitespace
             THEN RStrip(SubSeq(s, 1, Len(s) - 1)) ELSE s

\* str.strip()
Strip(s) == RStrip(LStrip(s))

\* the lines as send sees them: decoded and stripped
RECURSIVE StripAll(_)
StripAll(lines) == IF lines = <<>> THEN <<>>
                   ELSE <<Strip(Head(lines))>> \o StripAll(Tail(lines))

RECURSIVE Join(_)
\* '\n'.join(lines)
Join(lines) == IF lines = <<>> THEN <<>>
               ELSE IF Len(lines) = 1 THEN lines[1]
               ELSE lines[1] \o <<LF>> \o Join(Tail(lines))

RECURSIVE SplitFrom(_, _)
SplitFrom(s, cur) == IF s = <<>> THEN <<cur>>
                     ELSE IF Head(s) = LF THEN <<cur>> \o SplitFrom(Tail(s), <<>>)
                     ELSE SplitFrom(Tail(s), Append(cur, Head(s)))

\* str.split('\n')
Split(s) == SplitFrom(s, <<>>)

\* needle in haystack (bytes containment)
Contains(hay, needle) ==
    \E i \in 1..(Len(hay) - Len(needle) + 1) :
        SubSeq(hay, i, i + Len(needle) - 1) = needle

Front(s) == SubSeq(s, 1, Len(s) - 1)
Last(s)  == s[Len(s)]

OK     == <<"O", "K">>
ERROR  == <<"E", "R", "R", "O", "R">>
RFDSiK == <<"R", "F", "D", SP, "S", "i", "K">>
AT     == <<"A", "T">>
PLUSES == <<"+", "+", "+">>
ATS3Q  == <<"A", "T", "S", "3", "?">>
ATI    == <<"A", "T", "I">>
ATO    == <<"A", "T", "O">>
D25    == <<"2", "5">>

\* requests the callers issue in the model
Commands == {ATS3Q, ATI}

\* lines the modem may put on the wire, as readline() returns them
RawLines == {ATS3Q \o CRLF, D25 \o CRLF, OK \o CRLF, ERROR \o CRLF, CRLF}

\* chunks the modem may answer to the probe
Chunks == {<<"O">>, <<"K">>, <<"x">>, <<"R", "F", "D", SP>>, <<"S", "i", "K">>}

----------------------------------------------------------------------------
(* Port events *)

Ev(o, a) == [op |-> o, arg |-> a]

FaultEv == Ev("SerialException", 0)

\* a fresh handle: the least one that is neither open nor referred to
Handles == 1..(max_attempts + 3)
NewHandle == CHOOSE h \in Handles :
                /\ h \notin open \cup {entryHandle, ser}
                /\ \A g \in Handles : g < h => g \in open \cup {entryHandle, ser}

\* operations that touch the port and may raise serial.SerialException
PortOps == {"open", "dtr", "reset_input_buffer", "reset_output_buffer",
            "write", "flush", "in_waiting", "read", "readline"}

\* an entry attempt that never drops DTR
EntrySequence_noDrop ==
    << Ev("dtr", 1), Ev("sleep", DtrPause),
       Ev("reset_input_buffer", 0), Ev("reset_output_buffer", 0),
       Ev("write", AT \o CRLF), Ev("flush", 0) >>

\* the statements of one entry attempt between opening the port and polling
EntrySequence ==
    << Ev("dtr", 1), Ev("sleep", DtrPause),
       Ev("reset_input_buffer", 0), Ev("reset_output_buffer", 0),
       Ev("dtr", 0), Ev("sleep", DtrPause),
       Ev("write", AT \o CRLF), Ev("flush", 0) >>

\* a with-block that leaves the handle open
WithExit_leak(handles, h) == handles

\* leaving the with-block closes the handle
WithExit(handles, h) == handles \ {h}

\* an attempt that goes on with the bytes of the attempt before
InitialResponse_kept(old) == old

\* line 108: response = b''
InitialResponse(old) == <<>>

\* the probe matched
ProbeMatched(resp) == Contains(resp, OK) \/ Contains(resp, RFDSiK)

NoOutcome == [kind |-> "none"]
Returned(v) == [kind |-> "return", value |-> v]
Raised(e, m) == [kind |-> "raise", exc |-> e, msg |-> m]

EntryFailedMsg == <<"Failed to enter command mode">>
SerialMsg == <<"serial port error">>

----------------------------------------------------------------------------
Init ==
    /\ pc = "new"
    /\ attempt = 0
    /\ ser = 0
    /\ serial = 0
    /\ open = {}
    /\ entryHandle = 0
    /\ trace = <<>>
    /\ rxbytes = <<>>
    /\ chunks = 0
    /\ probeResponse = <<>>
    /\ elapsed = 0
    /\ constructed = NoOutcome
    /\ entered = 0
    /\ attemptsMade = 0
    /\ matched = FALSE
    /\ command = <<>>
    /\ via = "send"
    /\ inbuf = <<>>
    /\ late = FALSE
    /\ received = <<>>
    /\ response = <<>>
    /\ outcome = NoOutcome
    /\ visible = NoOutcome
    /\ endClass = "none"
    /\ faulted = FALSE
    /\ closeCalled = FALSE
    /\ reopened = FALSE
    /\ lastOp = "none"
    /\ afterSoft = FALSE
    /\ slept = 0
    /\ sent = <<>>
    /\ setStep = 0
    /\ setReg = "none"
    /\ setVal = 0
    /\ allOK = TRUE
    /\ issued = <<>>
    /\ printed = <<>>

\* ModemClient.__init__ up to the call of enter_command_mode
Construct ==
    /\ pc = "new"
    /\ pc' = "loop"
    /\ serial' = 0
    /\ attempt' = 0
    /\ UNCHANGED <<ser, open, entryHandle, trace, rxbytes, chunks, probeResponse,
                   elapsed, constructed, entered, attemptsMade, matched, faulted, closeCalled,
                   slept, sent>>
    /\ UNCHANGED sendVars
    /\ UNCHANGED shellVars

\* for attempt in range(max_attempts): with serial.Serial(...) as ser
EntryOpen ==
    /\ pc = "loop"
    /\ attempt < max_attempts
    /\ attemptsMade' = attemptsMade + 1
    /\ \/ /\ ser' = NewHandle
          /\ open' = open \cup {NewHandle}
          /\ trace' = <<Ev("open", NewHandle)>>
          /\ pc' = "setup"
          /\ UNCHANGED <<attempt, faulted, slept>>
       \/ \* serial.SerialException: logged, continue
          /\ trace' = <<FaultEv>>
          /\ attempt' = attempt + 1
          /\ faulted' = TRUE
          /\ slept' = 0
          /\ UNCHANGED <<ser, open, pc>>
    /\ UNCHANGED <<serial, entryHandle, rxbytes, chunks, probeResponse, elapsed,
                   constructed, entered, matched, closeCalled, sent>>
    /\ UNCHANGED sendVars
    /\ UNCHANGED shellVars

\* enter_command_mode returned True: __init__ returns the object
InitReturn ==
    /\ pc = "entered"
    /\ pc' = "ready"
    /\ constructed' = Returned(<<>>)
    /\ attempt' = 0
    /\ attemptsMade' = 0
    /\ probeResponse' = <<>>
    /\ chunks' = 0
    /\ slept' = 0
    /\ sent' = <<>>
    /\ UNCHANGED <<ser, serial, open, entryHandle, trace, rxbytes,
                   elapsed, entered, matched, faulted, closeCalled>>
    /\ UNCHANGED sendVars
    /\ UNCHANGED shellVars

\* the loop is exhausted: enter_command_mode returns False, __init__ raises
EntryExhausted ==
    /\ pc = "loop"
    /\ attempt >= max_attempts
    /\ pc' = "failed"
    /\ constructed' = Raised("ATRuntimeError", EntryFailedMsg)
    /\ UNCHANGED <<attempt, ser, serial, open, entryHandle, trace, rxbytes, chunks,
                   probeResponse, elapsed, entered, attemptsMade, matched, faulted, closeCalled,
                   slept, sent>>
    /\ UNCHANGED sendVars
    /\ UNCHANGED shellVars

\* DTR toggle, buffer reset and the AT probe
EntrySetup ==
    /\ pc = "setup"
    /\ \/ /\ trace' = trace \o EntrySequence
          /\ rxbytes' = <<>>
          /\ chunks' = 0
          /\ probeResponse' = InitialResponse(probeResponse)
          /\ sent' = <<>>
          /\ elapsed' = 0
          /\ pc' = "probe"
          /\ UNCHANGED <<attempt, ser, open, faulted, slept>>
       \/ \E k \in 1..Len(EntrySequence) :
            /\ EntrySequence[k].op \in PortOps
            /\ trace' = trace \o SubSeq(EntrySequence, 1, k - 1) \o <<FaultEv, Ev("close", ser)>>
            /\ open' = WithExit(open, ser)
            /\ ser' = 0
            /\ attempt' = attempt + 1
            /\ faulted' = TRUE
            /\ pc' = "loop"
            /\ slept' = 0
            /\ UNCHANGED <<rxbytes, chunks, probeResponse, elapsed, sent>>
    /\ UNCHANGED <<serial, entryHandle, constructed, entered, attemptsMade, matched, closeCalled>>
    /\ UNCHANGED sendVars
    /\ UNCHANGED shellVars

\* the modem answers the probe with some bytes
ModemChunk ==
    /\ pc = "probe"
    /\ chunks < MaxChunks
    /\ \E c \in Chunks : rxbytes' = rxbytes \o c /\ sent' = sent \o c
    /\ chunks' = chunks + 1
    /\ UNCHANGED <<pc, attempt, ser, serial, open, entryHandle, trace, probeResponse, elapsed,
                   constructed, entered, attemptsMade, matched, faulted, closeCalled,
                   slept>>
    /\ UNCHANGED sendVars
    /\ UNCHANGED shellVars

\* one iteration of the probe polling loop
EntryPoll ==
    /\ pc = "probe"
    /\ elapsed < ProbeDeadline
    /\ \/ \* nothing waiting
          /\ rxbytes = <<>>
          /\ elapsed' = elapsed + PollSleep
          /\ UNCHANGED <<pc, attempt, ser, serial, open, entryHandle, trace, rxbytes,
                         probeResponse, constructed, entered, matched, faulted, slept>>
       \/ \* chunk = ser.read(ser.in_waiting)
          /\ rxbytes # <<>>
          /\ rxbytes' = <<>>
          /\ IF ProbeMatched(probeResponse \o rxbytes)
             THEN /\ probeResponse' = probeResponse \o rxbytes
                  /\ serial' = ser
                  /\ entryHandle' = ser
                  /\ open' = WithExit(open, ser)
                  /\ trace' = trace \o <<Ev("read", 0), Ev("close", ser)>>
                  /\ ser' = 0
                  /\ entered' = entered + 1
                  /\ matched' = TRUE
                  /\ pc' = "entered"
                  /\ elapsed' = 0
                  /\ UNCHANGED <<attempt, faulted, constructed, slept>>
             ELSE /\ probeResponse' = probeResponse \o rxbytes
                  /\ elapsed' = elapsed + PollSleep
                  /\ trace' = Append(trace, Ev("read", 0))
                  /\ UNCHANGED <<pc, attempt, ser, serial, open, entryHandle,
                                 constructed, entered, matched, faulted, slept>>
       \/ \* in_waiting or read raises serial.SerialException
          /\ trace' = trace \o <<FaultEv, Ev("close", ser)>>
          /\ open' = WithExit(open, ser)
          /\ ser' = 0
          /\ attempt' = attempt + 1
          /\ faulted' = TRUE
          /\ slept' = 0
          /\ pc' = "loop"
          /\ UNCHANGED <<serial, entryHandle, rxbytes, probeResponse, elapsed,
                         constructed, entered, matched>>
    /\ UNCHANGED <<chunks, attemptsMade, closeCalled, sent>>
    /\ UNCHANGED sendVars
    /\ UNCHANGED shellVars

\* the probe deadline elapsed: leave the with-block, back off, next attempt
EntryDeadline ==
    /\ pc = "probe"
    /\ elapsed >= ProbeDeadline
    /\ open' = WithExit(open, ser)
    /\ trace' = trace \o <<Ev("close", ser), Ev("sleep", Backoff)>>
    /\ ser' = 0
    /\ attempt' = attempt + 1
    /\ pc' = "loop"
    /\ slept' = Backoff
    /\ UNCHANGED <<serial, entryHandle, rxbytes, chunks, probeResponse, elapsed,
                   constructed, entered, attemptsMade, matched, faulted, closeCalled, sent>>
    /\ UNCHANGED sendVars
    /\ UNCHANGED shellVars

----------------------------------------------------------------------------
(* ModemClient.send *)

\* a send that opens the port every time
NeedsOpen_always(s, handles) == TRUE

\* line 22: a handle has to be opened first
NeedsOpen(s, handles) == s = 0 \/ s \notin handles

\* line 48: the line is taken for the echo of the command
IsEcho(line, cmd, resp) == line = cmd

IsTerminator(line) == line \in {OK, ERROR}

FailedMsg(cmd, result) == <<"Command '">> \o cmd \o <<"' failed with: ">> \o result

\* a send that returns the text of a rejected command instead of raising
SendResult_noraise(cmd, resp) ==
    IF resp # <<>>
    THEN IF IsTerminator(Last(resp)) THEN Returned(Join(Front(resp)))
         ELSE Returned(Join(resp))
    ELSE Returned(<<>>)

\* lines 59-72: what send returns or raises once the loop is left
SendResult(cmd, resp) ==
    IF resp # <<>>
    THEN IF IsTerminator(Last(resp))
         THEN IF Last(resp) = ERROR
              THEN Raised("ATRuntimeError", FailedMsg(cmd, Join(Front(resp))))
              ELSE Returned(Join(Front(resp)))
         ELSE Returned(Join(resp))
    ELSE Returned(<<>>)

\* a read loop that collects the terminator and goes round again
ReadStep_goesOn(cmd, line, resp) ==
    IF IsEcho(line, cmd, resp)
    THEN [resp |-> resp, done |-> FALSE, sleep |-> 0]
    ELSE [resp |-> Append(resp, line), done |-> FALSE, sleep |-> PollSleep]

\* lines 47-57: the effect of one line read on the collected response
ReadStep(cmd, line, resp) ==
    IF IsEcho(line, cmd, resp)
    THEN [resp |-> resp, done |-> FALSE, sleep |-> 0]
    ELSE IF IsTerminator(line)
         THEN [resp |-> Append(resp, line), done |-> TRUE, sleep |-> 0]
         ELSE [resp |-> Append(resp, line), done |-> FALSE, sleep |-> PollSleep]

RECURSIVE Collect(_, _, _, _)
\* lines 42-57 run on a buffer that holds `pending` from the start and gets nothing more
Collect(cmd, pending, resp, t) ==
    IF t >= DefaultTimeout \/ pending = <<>> THEN resp
    ELSE LET r == ReadStep(cmd, Strip(Head(pending)), resp)
         IN  IF r.done THEN r.resp ELSE Collect(cmd, Tail(pending), r.resp, t + r.sleep)

\* [line.strip() for line in response.split('\n') if line.strip()]
RECURSIVE NonBlank(_)
NonBlank(lines) == IF lines = <<>> THEN <<>>
                   ELSE IF Strip(Head(lines)) # <<>>
                        THEN <<Strip(Head(lines))>> \o NonBlank(Tail(lines))
                        ELSE NonBlank(Tail(lines))

\* rfd-config.py get_modem_response, applied to the outcome of client.send(cmd)
GetModemResponse(cmd, out) ==
    IF out.kind = "raise" THEN Returned(<<>>)
    ELSE IF out.value = <<>> THEN Returned(<<>>)
    ELSE LET lines == NonBlank(Split(out.value))
         IN  IF lines # <<>> /\ lines[1] = cmd
             THEN Returned(Join(Tail(lines)))
             ELSE Returned(Join(lines))

\* what the caller of the exchange observes
Visible(v, cmd, out) == IF v = "wrapper" THEN GetModemResponse(cmd, out) ELSE out

\* the statements of send before the read loop, once a handle is there
SendSequence(cmd) ==
    << Ev("reset_input_buffer", 0), Ev("write", cmd \o CRLF), Ev("flush", 0) >>

\* how an exchange that left the loop normally ended
ClassOf(resp) == IF resp # <<>> /\ Last(resp) = OK THEN "success"
                 ELSE IF resp # <<>> /\ Last(resp) = ERROR THEN "rejected"
                 ELSE "unterminated"

\* the exchange is over: record the outcome
Finish(out, class, v, cmd) ==
    /\ outcome' = out
    /\ visible' = Visible(v, cmd, out)
    /\ endClass' = class
    /\ pc' = "ready"

\* send(cmd) up to the start of the read loop, called directly (v = "send") or
\* by get_modem_response (v = "wrapper")
StartSend(cmd, v) ==
        /\ command' = cmd
        /\ via' = v
        /\ lastOp' = "send"
        /\ afterSoft' = (lastOp = "send" /\ endClass \in {"rejected", "unterminated"})
        /\ LET needs == NeedsOpen(serial, open)
               h     == IF needs THEN NewHandle ELSE serial
               pre   == IF needs THEN <<Ev("open", h)>> ELSE <<>>
           IN
           \/ \* no fault
              /\ serial' = h
              /\ open' = open \cup {h}
              /\ reopened' = needs
              /\ trace' = pre \o SendSequence(cmd)
              /\ inbuf' = <<>>
              /\ late' = FALSE
              /\ received' = <<>>
              /\ response' = <<>>
              /\ elapsed' = 0
              /\ pc' = "recv"
              /\ outcome' = NoOutcome
              /\ visible' = NoOutcome
              /\ endClass' = "none"
              /\ UNCHANGED faulted
           \/ \* serial.Serial(...) raises
              /\ needs
              /\ trace' = <<FaultEv>>
              /\ reopened' = FALSE
              /\ faulted' = TRUE
              /\ received' = <<>> /\ response' = <<>>
              /\ late' = FALSE /\ elapsed' = 0
              /\ UNCHANGED <<serial, open, inbuf>>
              /\ Finish(Raised("ATSerialPortError", SerialMsg), "transport-fault", v, cmd)
           \/ \* reset_input_buffer, write or flush raises
              \E k \in 1..Len(SendSequence(cmd)) :
                /\ serial' = h
                /\ open' = open \cup {h}
                /\ reopened' = needs
                /\ trace' = pre \o SubSeq(SendSequence(cmd), 1, k - 1) \o <<FaultEv>>
                /\ inbuf' = <<>>
                /\ faulted' = TRUE
                /\ received' = <<>> /\ response' = <<>>
                /\ late' = FALSE /\ elapsed' = 0
                /\ Finish(Raised("ATSerialPortError", SerialMsg), "transport-fault", v, cmd)
        /\ UNCHANGED closeCalled
        /\ UNCHANGED entryVars

\* a caller issues a request
SendBegin ==
    /\ pc = "ready"
    /\ setStep = 0
    /\ \E cmd \in Commands, v \in {"send", "wrapper"} : StartSend(cmd, v)
    /\ UNCHANGED shellVars

\* the modem puts one of `lines` on the wire, at most `most` in one exchange
Emit(lines, most) ==
    /\ pc = "recv"
    /\ Len(received) + Len(inbuf) < most
    /\ \E l \in lines : inbuf' = Append(inbuf, l)
    /\ late' = (late \/ elapsed > 0)
    /\ UNCHANGED <<pc, serial, open, trace, elapsed, command, via, received, response,
                   outcome, visible, endClass, faulted, closeCalled, reopened,
                   lastOp, afterSoft>>
    /\ UNCHANGED entryVars
    /\ UNCHANGED shellVars

\* the modem answers a request of the base model
ModemEmit == Emit(RawLines, MaxLines)

\* one iteration of the read loop (lines 42-57)
SendPoll ==
    /\ pc = "recv"
    /\ elapsed < DefaultTimeout
    /\ \/ \* nothing waiting: sleep
          /\ inbuf = <<>>
          /\ elapsed' = elapsed + PollSleep
          /\ UNCHANGED <<pc, inbuf, received, response, outcome, visible, endClass,
                         trace, faulted>>
       \/ \* line = self.serial.readline().decode().strip()
          /\ inbuf # <<>>
          /\ LET r == ReadStep(command, Strip(Head(inbuf)), response) IN
             /\ inbuf' = Tail(inbuf)
             /\ received' = Append(received, Head(inbuf))
             /\ trace' = Append(trace, Ev("readline", 0))
             /\ response' = r.resp
             /\ IF r.done
                THEN \* break
                     /\ Finish(SendResult(command, r.resp), ClassOf(r.resp), via, command)
                     /\ UNCHANGED elapsed
                ELSE \* continue, or sleep and go round
                     /\ elapsed' = elapsed + r.sleep
                     /\ UNCHANGED <<pc, outcome, visible, endClass>>
          /\ UNCHANGED faulted
       \/ \* in_waiting or readline raises serial.SerialException
          /\ trace' = Append(trace, FaultEv)
          /\ faulted' = TRUE
          /\ Finish(Raised("ATSerialPortError", SerialMsg), "transport-fault", via, command)
          /\ UNCHANGED <<inbuf, received, response, elapsed>>
    /\ UNCHANGED <<serial, open, command, via, late, closeCalled, reopened,
                   lastOp, afterSoft>>
    /\ UNCHANGED entryVars
    /\ UNCHANGED shellVars

\* a read loop without a deadline: nothing ends it while the modem is silent
SendTimeout_never == FALSE /\ UNCHANGED vars

\* the per-command timeout elapsed
SendTimeout ==
    /\ pc = "recv"
    /\ elapsed >= DefaultTimeout
    /\ Finish(SendResult(command, response), ClassOf(response), via, command)
    /\ UNCHANGED <<serial, open, trace, elapsed, command, via, inbuf, late,
                   received, response, faulted, closeCalled, reopened,
                   lastOp, afterSoft>>
    /\ UNCHANGED entryVars
    /\ UNCHANGED shellVars

\* a close that forgets the handle
CloseHandles_none(s, handles) == handles

\* lines 134-135: the handles open after close()
CloseHandles(s, handles) == IF s # 0 /\ s \in handles THEN handles \ {s} ELSE handles

\* a close that releases the handle without looking at is_open
CloseRelease_unguarded(s, handles) == <<Ev("close", s)>>

\* lines 134-135: the release close() performs
CloseRelease(s, handles) == IF s # 0 /\ s \in handles THEN <<Ev("close", s)>> ELSE <<>>

\* ModemClient.close
Close ==
    /\ pc = "ready"
    /\ setStep = 0
    /\ open' = CloseHandles(serial, open)
    /\ trace' = CloseRelease(serial, open)
    /\ closeCalled' = TRUE
    /\ lastOp' = "close"
    /\ inbuf' = <<>>
    /\ UNCHANGED <<pc, serial, elapsed, faulted, command, via, late, received, response,
                   outcome, visible, endClass, reopened, afterSoft>>
    /\ UNCHANGED entryVars
    /\ UNCHANGED shellVars

SendNext == SendBegin \/ ModemEmit \/ SendPoll \/ SendTimeout \/ Close

----------------------------------------------------------------------------
\* rfd-config.py main: the ways out of the session

\* main has returned: the locals of the session are gone
Discard ==
    /\ attempt' = 0 /\ ser' = 0 /\ entryHandle' = 0
    /\ rxbytes' = <<>> /\ chunks' = 0 /\ probeResponse' = <<>> /\ elapsed' = 0
    /\ constructed' = NoOutcome /\ entered' = 0 /\ attemptsMade' = 0 /\ matched' = FALSE
    /\ slept' = 0 /\ sent' = <<>>
    /\ command' = <<>> /\ via' = "send" /\ inbuf' = <<>> /\ late' = FALSE
    /\ received' = <<>> /\ response' = <<>> /\ outcome' = NoOutcome /\ visible' = NoOutcome
    /\ endClass' = "none" /\ reopened' = FALSE /\ afterSoft' = FALSE
    /\ setStep' = 0 /\ setReg' = "none" /\ setVal' = 0 /\ allOK' = TRUE
    /\ issued' = <<>> /\ printed' = <<>>

\* CLI.cleanup: if self.client: self.client.close()
Cleanup(path) ==
    /\ open' = CloseHandles(serial, open)
    /\ trace' = CloseRelease(serial, open)
    /\ closeCalled' = TRUE
    /\ lastOp' = path
    /\ pc' = "exited"
    /\ UNCHANGED <<serial, faulted>>
    /\ Discard

\* do_exit / do_quit return True, cmdloop returns, finally: cli.cleanup()
ShellExit ==
    /\ pc = "ready"
    /\ setStep = 0
    /\ Cleanup("exit")

\* KeyboardInterrupt while the shell waits for the modem: not an Exception, so
\* no handler of the shell catches it; finally: cli.cleanup()
ShellInterrupt ==
    /\ pc = "recv"
    /\ Cleanup("interrupt")

\* KeyboardInterrupt inside ModemClient.__init__: the with-block releases the
\* attempt's handle, cli.client was never assigned, cleanup has nothing to close
ConnectInterrupt ==
    /\ pc \in {"setup", "probe", "entered"}
    /\ open' = WithExit(open, ser)
    /\ trace' = <<Ev("close", ser)>>
    /\ lastOp' = "interrupt"
    /\ pc' = "exited"
    /\ serial' = 0
    /\ UNCHANGED <<faulted, closeCalled>>
    /\ Discard

\* cli.connect raised ATRuntimeError: except Exception prints, sys.exit(1),
\* finally: cli.cleanup() with cli.client still None
ConnectFailed ==
    /\ pc = "failed"
    /\ lastOp' = "abort"
    /\ pc' = "exited"
    /\ trace' = <<>>
    /\ UNCHANGED <<open, serial, faulted, closeCalled>>
    /\ Discard

\* no modem chosen: sys.exit(0) before cli.connect
Cancel ==
    /\ pc = "new"
    /\ lastOp' = "cancel"
    /\ pc' = "exited"
    /\ trace' = <<>>
    /\ UNCHANGED <<open, serial, faulted, closeCalled>>
    /\ Discard

MainNext == ShellExit \/ ShellInterrupt \/ ConnectInterrupt \/ ConnectFailed \/ Cancel

EntryNext == Construct \/ EntryOpen \/ InitReturn \/ EntryExhausted \/ EntrySetup \/ ModemChunk
             \/ EntryPoll \/ EntryDeadline

----------------------------------------------------------------------------
(* s_registers.py and the parameter table of rfd-config.py *)

\* s_registers.py: class SRegisters(Enum), member name -> register index
SRegisters ==
    [ FORMAT |-> 0,
      SERIAL_SPEED |-> 1,
      AIR_SPEED |-> 2,
      NETID |-> 3,
      TXPOWER |-> 4,
      ECC |-> 5,
      MAVLINK |-> 6,
      OP_RESEND |-> 7,
      MIN_FREQ |-> 8,
      MAX_FREQ |-> 9,
      NUM_CHANNELS |-> 10,
      DUTY_CYCLE |-> 11,
      LBT_RSSI |-> 12,
      MANCHESTER |-> 13,
      RTSCTS |-> 14,
      NODEID |-> 15,
      NODEDESTINATION |-> 16,
      SYNCANY |-> 17,
      NODECOUNT |-> 18 ]

\* the member names, as do_set computes them: [r.name for r in SRegisters]
RegisterNames == DOMAIN SRegisters

\* ParameterConstraints(min_val, max_val, default_val, description, requires_matching)
PC(lo, hi, dflt, matching) ==
    [min_val |-> lo, max_val |-> hi, default_val |-> dflt, requires_matching |-> matching]

\* a table whose TXPOWER default lies outside its range
PARAMETER_CONSTRAINTS_bad ==
    [ FORMAT |-> PC(0, 0, 0, FALSE),
      SERIAL_SPEED |-> PC(2, 115, 57, FALSE),
      AIR_SPEED |-> PC(2, 250, 64, TRUE),
      NETID |-> PC(0, 499, 25, TRUE),
      TXPOWER |-> PC(0, 30, 120, FALSE),
      ECC |-> PC(0, 1, 1, TRUE),
      MAVLINK |-> PC(0, 1, 1, FALSE),
      OP_RESEND |-> PC(0, 1, 1, FALSE),
      MIN_FREQ |-> PC(902000, 927000, 915000, TRUE),
      MAX_FREQ |-> PC(903000, 928000, 928000, TRUE),
      NUM_CHANNELS |-> PC(5, 50, 50, TRUE),
      DUTY_CYCLE |-> PC(10, 100, 100, FALSE),
      LBT_RSSI |-> PC(0, 1, 0, TRUE),
      MANCHESTER |-> PC(0, 1, 0, TRUE),
      RTSCTS |-> PC(0, 1, 0, FALSE),
      NODEID |-> PC(0, 29, 2, FALSE),
      NODEDESTINATION |-> PC(0, 65535, 65535, FALSE),
      SYNCANY |-> PC(0, 1, 0, FALSE),
      NODECOUNT |-> PC(2, 30, 3, TRUE) ]

\* rfd-config.py PARAMETER_CONSTRAINTS
PARAMETER_CONSTRAINTS ==
    [ FORMAT |-> PC(0, 0, 0, FALSE),
      SERIAL_SPEED |-> PC(2, 115, 57, FALSE),
      AIR_SPEED |-> PC(2, 250, 64, TRUE),
      NETID |-> PC(0, 499, 25, TRUE),
      TXPOWER |-> PC(0, 30, 20, FALSE),
      ECC |-> PC(0, 1, 1, TRUE),
      MAVLINK |-> PC(0, 1, 1, FALSE),
      OP_RESEND |-> PC(0, 1, 1, FALSE),
      MIN_FREQ |-> PC(902000, 927000, 915000, TRUE),
      MAX_FREQ |-> PC(903000, 928000, 928000, TRUE),
      NUM_CHANNELS |-> PC(5, 50, 50, TRUE),
      DUTY_CYCLE |-> PC(10, 100, 100, FALSE),
      LBT_RSSI |-> PC(0, 1, 0, TRUE),
      MANCHESTER |-> PC(0, 1, 0, TRUE),
      RTSCTS |-> PC(0, 1, 0, FALSE),
      NODEID |-> PC(0, 29, 2, FALSE),
      NODEDESTINATION |-> PC(0, 65535, 65535, FALSE),
      SYNCANY |-> PC(0, 1, 0, FALSE),
      NODECOUNT |-> PC(2, 30, 3, TRUE) ]

\* decimal digits
Digits == <<"0", "1", "2", "3", "4", "5", "6", "7", "8", "9">>

DigitValue(c) == CHOOSE d \in 0..9 : Digits[d + 1] = c

IsDigit(c) == \E d \in 0..9 : Digits[d + 1] = c

\* str(n) for n >= 0
RECURSIVE NatToStr(_)
NatToStr(n) == IF n < 10 THEN <<Digits[n + 1]>>
               ELSE NatToStr(n \div 10) \o <<Digits[(n % 10) + 1]>>

\* the text an f-string puts for an int
IntToStr(n) == IF n < 0 THEN <<"-">> \o NatToStr(0 - n) ELSE NatToStr(n)

\* the value of a string of digits read left to right
RECURSIVE DigitsValue(_, _)
DigitsValue(s, acc) == IF s = <<>> THEN acc
                       ELSE DigitsValue(Tail(s), 10 * acc + DigitValue(Head(s)))

\* int(text): surrounding blanks and one sign are accepted, then digits only;
\* anything else is a ValueError
ParseInt(text) ==
    LET t    == Strip(text)
        neg  == t # <<>> /\ Head(t) = "-"
        body == IF t # <<>> /\ Head(t) \in {"-", "+"} THEN Tail(t) ELSE t
    IN  IF body # <<>> /\ \A i \in DOMAIN body : IsDigit(body[i])
        THEN [ok |-> TRUE, val |-> IF neg THEN 0 - DigitsValue(body, 0) ELSE DigitsValue(body, 0)]
        ELSE [ok |-> FALSE, val |-> 0]

\* str.upper on one character
UpperChar(c) ==
    LET lower == <<"a", "b", "c", "d", "e", "f", "g", "h", "i", "j", "k", "l", "m",
                   "n", "o", "p", "q", "r", "s", "t", "u", "v", "w", "x", "y", "z">>
        upper == <<"A", "B", "C", "D", "E", "F", "G", "H", "I", "J", "K", "L", "M",
                   "N", "O", "P", "Q", "R", "S", "T", "U", "V", "W", "X", "Y", "Z">>
    IN  IF \E i \in 1..26 : lower[i] = c
        THEN upper[CHOOSE i \in 1..26 : lower[i] = c]
        ELSE c

\* str.upper, as one string
RECURSIVE Upper(_)
Upper(s) == IF s = <<>> THEN "" ELSE UpperChar(Head(s)) \o Upper(Tail(s))

\* str.split(): the words between runs of blanks
RECURSIVE WordsFrom(_, _)
WordsFrom(s, cur) ==
    IF s = <<>> THEN (IF cur = <<>> THEN <<>> ELSE <<cur>>)
    ELSE IF Head(s) \in {SP, CR, LF}
         THEN (IF cur = <<>> THEN <<>> ELSE <<cur>>) \o WordsFrom(Tail(s), <<>>)
         ELSE WordsFrom(Tail(s), Append(cur, Head(s)))

Words(s) == WordsFrom(s, <<>>)

----------------------------------------------------------------------------
(* rfd-config.py RFDShell.do_set *)

ATW == <<"A", "T", "&", "W">>
ATS == <<"A", "T", "S">>
D5  == <<"5">>
D7  == <<"7">>

\* the lines the modem may answer to the requests of a set command
SetLines == {D5 \o CRLF, D7 \o CRLF, OK \o CRLF, ERROR \o CRLF}

\* what the user may type after `set`
SetArgs ==
    { <<"N", "E", "T", "I", "D", SP, "5">>,
      <<"n", "e", "t", "i", "d", SP, SP, "0", "5", SP>>,
      <<"T", "X", "P", "O", "W", "E", "R", SP, "3", "0">>,
      <<"N", "E", "T", "I", "D", SP, "5", "0", "0">>,
      <<"T", "X", "P", "O", "W", "E", "R", SP, "-", "1">>,
      <<"B", "O", "G", "U", "S", SP, "5">>,
      <<"N", "E", "T", "I", "D", SP, "x">>,
      <<"N", "E", "T", "I", "D">> }

\* one line the shell prints
Say(kind, name, lo, hi, text) ==
    [kind |-> kind, name |-> name, lo |-> lo, hi |-> hi, text |-> text]

\* lines 152-168: the checks of do_set before anything is sent
SetCheck(arg) ==
    LET args == Words(Strip(arg))
        none == [ok |-> FALSE, register |-> "none", value |-> 0, printed |-> <<>>]
    IN  IF Len(args) # 2
        THEN [none EXCEPT !.printed = <<Say("usage", "", 0, 0, <<>>)>>]
        ELSE LET register == Upper(args[1])
                 value    == ParseInt(args[2])
             IN  IF ~value.ok
                 THEN [none EXCEPT !.printed = <<Say("not-an-integer", "", 0, 0, <<>>)>>]
                 ELSE IF register \notin RegisterNames
                 THEN [none EXCEPT !.printed = <<Say("invalid-parameter", register, 0, 0, <<>>)>>]
                 ELSE LET constraints == PARAMETER_CONSTRAINTS[register]
                      IN  IF value.val < constraints.min_val \/ value.val > constraints.max_val
                          THEN [none EXCEPT !.printed =
                                   <<Say("out-of-range", register, constraints.min_val,
                                         constraints.max_val, <<>>)>>]
                          ELSE [ok |-> TRUE, register |-> register, value |-> value.val,
                                printed |-> <<>>]

\* a set command that saves before it writes the register
SetRequests_saveFirst(n, v) ==
    << ATW, ATS \o IntToStr(n) \o <<"=">> \o IntToStr(v), ATS \o IntToStr(n) \o <<"?">> >>

\* lines 170-177: the requests of a set command, in order
SetRequests(n, v) ==
    << ATS \o IntToStr(n) \o <<"=">> \o IntToStr(v), ATW, ATS \o IntToStr(n) \o <<"?">> >>

\* a set command that goes on after a failed request
SetAborts_never(out) == FALSE

\* lines 157, 183-186: an exception of client.send leaves the try block
SetAborts(out) == out.kind = "raise"

\* lines 177-181: what do_set prints once the read-back has returned
SetReport(readback, register, value) ==
    IF readback.value # <<>>
    THEN <<Say("set", register, value, value, <<>>)>>
         \o (IF PARAMETER_CONSTRAINTS[register].requires_matching
             THEN <<Say("note-same-on-both", register, 0, 0, <<>>)>> ELSE <<>>)
    ELSE <<>>

\* a set command that swallows the failure of a request
SetFailure_silent(out) == <<>>

\* lines 185-186: except Exception as e: print(f"Error: {e}")
SetFailure(out) == <<Say("error", "", 0, 0, out.msg)>>

\* do_set up to the first request being on the wire, or up to the error message
DoSet ==
    /\ pc = "ready"
    /\ setStep = 0
    /\ \E arg \in SetArgs :
         LET c == SetCheck(arg)
         IN  IF c.ok
             THEN /\ setStep' = 1
                  /\ setReg' = c.register
                  /\ setVal' = c.value
                  /\ allOK' = TRUE
                  /\ printed' = <<>>
                  /\ issued' = <<SetRequests(SRegisters[c.register], c.value)[1]>>
                  /\ StartSend(SetRequests(SRegisters[c.register], c.value)[1], "send")
             ELSE /\ setStep' = 0
                  /\ setReg' = "none"
                  /\ setVal' = 0
                  /\ allOK' = TRUE
                  /\ printed' = c.printed
                  /\ issued' = <<>>
                  /\ trace' = <<>>
                  /\ lastOp' = "set"
                  /\ UNCHANGED <<pc, serial, open, elapsed, faulted, closeCalled>>
                  /\ UNCHANGED <<command, via, inbuf, late, received, response, outcome,
                                 visible, endClass, reopened, afterSoft>>
                  /\ UNCHANGED entryVars

\* do_set after a request has returned or raised: the next request, the report,
\* or the error message
DoSetStep ==
    /\ pc = "ready"
    /\ setStep \in 1..3
    /\ allOK' = (allOK /\ endClass = "success")
    /\ UNCHANGED <<setReg, setVal>>
    /\ IF setStep < 3 /\ ~SetAborts(outcome)
       THEN /\ setStep' = setStep + 1
            /\ issued' = Append(issued, SetRequests(SRegisters[setReg], setVal)[setStep + 1])
            /\ printed' = <<>>
            /\ StartSend(SetRequests(SRegisters[setReg], setVal)[setStep + 1],
                         IF setStep + 1 = 3 THEN "wrapper" ELSE "send")
       ELSE /\ setStep' = 0
            /\ printed' = IF setStep < 3
                          THEN SetFailure(outcome)
                          ELSE SetReport(visible, setReg, setVal)
            /\ UNCHANGED issued
            /\ UNCHANGED <<pc, serial, open, trace, elapsed, faulted, closeCalled>>
            /\ UNCHANGED sendVars
            /\ UNCHANGED entryVars

\* the modem answers a request of a set command
ModemAnswer == Emit(SetLines, MaxAnswers)

ShellNext == EntryNext \/ DoSet \/ DoSetStep \/ ModemAnswer \/ SendPoll \/ SendTimeout
             \/ ShellExit

\* the shell of rfd-config.py running set commands
SpecShell == Init /\ [][ShellNext]_vars

----------------------------------------------------------------------------
(* configure-rfd.py: the older front end, which talks to the port itself *)

ATI5 == <<"A", "T", "I", "5">>

\* the variables this front end has no use for
legacyIdle == <<attempt, serial, entryHandle, rxbytes, chunks, probeResponse, elapsed,
                constructed, entered, attemptsMade, matched, slept, sent, via, late,
                response, outcome, visible, endClass, reopened, afterSoft,
                setStep, setReg, setVal, allOK, closeCalled>>

\* what the user may type at the prompt
LegacyInputs ==
    { <<"s", "e", "t", SP, "N", "E", "T", "I", "D", SP, "5">>,
      <<"s", "e", "t", SP, "t", "x", "p", "o", "w", "e", "r", SP, "5", "0", "0">>,
      <<"s", "e", "t", SP, "N", "E", "T", "I", "D", SP, "x">>,
      <<"s", "e", "t", SP, "B", "O", "G", "U", "S", SP, "5">>,
      <<"s", "e", "t", SP, "N", "E", "T", "I", "D">>,
      <<"g", "e", "t", SP, "N", "E", "T", "I", "D">>,
      <<"w", "r", "i", "t", "e">>,
      <<"E", "x", "i", "t">>,
      <<"f", "o", "o">> }

\* str.lower on one character
LowerChar(c) ==
    LET lower == <<"a", "b", "c", "d", "e", "f", "g", "h", "i", "j", "k", "l", "m",
                   "n", "o", "p", "q", "r", "s", "t", "u", "v", "w", "x", "y", "z">>
        upper == <<"A", "B", "C", "D", "E", "F", "G", "H", "I", "J", "K", "L", "M",
                   "N", "O", "P", "Q", "R", "S", "T", "U", "V", "W", "X", "Y", "Z">>
    IN  IF \E i \in 1..26 : upper[i] = c
        THEN lower[CHOOSE i \in 1..26 : upper[i] = c]
        ELSE c

\* str.lower
Lower(s) == [i \in DOMAIN s |-> LowerChar(s[i])]

\* str.startswith
StartsWith(s, prefix) ==
    Len(s) >= Len(prefix) /\ SubSeq(s, 1, Len(prefix)) = prefix

\* str.split(" ", n): cut at each of the first n blanks
RECURSIVE SplitN(_, _, _)
SplitN(s, n, cur) ==
    IF s = <<>> THEN <<cur>>
    ELSE IF Head(s) = SP /\ n > 0 THEN <<cur>> \o SplitN(Tail(s), n - 1, <<>>)
    ELSE SplitN(Tail(s), n, Append(cur, Head(s)))

\* lines 48-87: what a typed command asks for: the requests to send one after
\* the other, or the message of the exception raised before anything is sent
LegacyDispatch(typed) ==
    LET low  == Lower(typed)
        sendR(k, reqs) == [kind |-> k, requests |-> reqs, printed |-> <<>>]
        fail(k, m)     == [kind |-> k, requests |-> <<>>, printed |-> m]
    IN  IF low \in {<<"e", "x", "i", "t">>, <<"q", "u", "i", "t">>}
        THEN sendR("lexit", <<ATO>>)
        ELSE IF StartsWith(low, <<"g", "e", "t", SP>>)
        THEN LET parts == SplitN(typed, 1, <<>>)
             IN  IF Upper(parts[2]) \in RegisterNames
                 THEN sendR("lget", <<ATS \o IntToStr(SRegisters[Upper(parts[2])]) \o <<"?">> >>)
                 ELSE fail("lget", <<Say("error", Upper(parts[2]), 0, 0, <<>>)>>)
        ELSE IF StartsWith(low, <<"s", "e", "t", SP>>)
        THEN LET parts == SplitN(typed, 2, <<>>)
             IN  IF Len(parts) # 3
                 THEN fail("lset", <<Say("error", "", 0, 0, <<"not enough values to unpack">>)>>)
                 ELSE IF Upper(parts[2]) \in RegisterNames
                 THEN sendR("lset", <<ATS \o IntToStr(SRegisters[Upper(parts[2])])
                                        \o <<"=">> \o parts[3]>>)
                 ELSE fail("lset", <<Say("error", Upper(parts[2]), 0, 0, <<>>)>>)
        ELSE IF low = <<"w", "r", "i", "t", "e">>
        THEN sendR("lwrite", <<ATW, ATI5>>)
        ELSE fail("lother", <<Say("unknown-command", "", 0, 0, <<>>)>>)

\* lines 33-35 of send_command: write the request, wait half a second
LegacyWrite(req) == << Ev("write", req \o CRLF), Ev("sleep", 5) >>

\* line 135: with serial.Serial(selected_port, baudrate, timeout=1) as ser
LegacyOpen ==
    /\ pc = "new"
    /\ \/ /\ ser' = NewHandle
          /\ open' = open \cup {NewHandle}
          /\ trace' = <<Ev("open", NewHandle)>>
          /\ pc' = "l_open"
          /\ UNCHANGED <<faulted, printed>>
       \/ /\ trace' = <<FaultEv>>
          /\ faulted' = TRUE
          /\ printed' = <<Say("error", "", 0, 0, SerialMsg)>>
          /\ pc' = "exited"
          /\ UNCHANGED <<ser, open>>
    /\ UNCHANGED <<command, inbuf, received, issued, lastOp>>
    /\ UNCHANGED legacyIdle

\* enter_command_mode(ser) up to readlines: one second of silence, +++, one
\* second of silence
LegacyEnter ==
    /\ pc = "l_open"
    /\ lastOp' = "lenter"
    /\ \/ /\ trace' = <<Ev("sleep", 10), Ev("write", PLUSES), Ev("sleep", 10)>>
          /\ pc' = "l_wait"
          /\ UNCHANGED <<open, ser, faulted, printed>>
       \/ \* ser.write raises: the with-block closes the port, main prints
          /\ trace' = <<Ev("sleep", 10), FaultEv, Ev("close", ser)>>
          /\ open' = WithExit(open, ser)
          /\ ser' = 0
          /\ faulted' = TRUE
          /\ printed' = <<Say("error", "", 0, 0, SerialMsg)>>
          /\ pc' = "exited"
    /\ UNCHANGED <<command, inbuf, received, issued>>
    /\ UNCHANGED legacyIdle

\* the modem puts a line on the wire, while the front end waits for an answer
\* or, for a late line, while it waits for the user
LegacyEmit ==
    /\ pc \in {"l_wait", "l_shell"}
    /\ Len(inbuf) < MaxAnswers
    /\ \E l \in SetLines : inbuf' = Append(inbuf, l)
    /\ UNCHANGED <<pc, ser, open, trace, command, received, issued, lastOp, faulted, printed>>
    /\ UNCHANGED legacyIdle

\* the shell types a command: lines 45-87 up to the first send_command
LegacyCommand ==
    /\ pc = "l_shell"
    /\ \E typed \in LegacyInputs :
         LET c == LegacyDispatch(Strip(typed))
         IN  /\ command' = Strip(typed)
             /\ lastOp' = c.kind
             /\ received' = <<>>
             /\ IF c.requests # <<>>
                THEN \/ /\ trace' = LegacyWrite(c.requests[1])
                        /\ issued' = <<c.requests[1]>>
                        /\ printed' = <<>>
                        /\ pc' = "l_wait"
                        /\ UNCHANGED faulted
                     \/ \* ser.write raises: except Exception prints, the loop goes on
                        /\ trace' = <<FaultEv>>
                        /\ issued' = <<>>
                        /\ printed' = <<Say("error", "", 0, 0, SerialMsg)>>
                        /\ faulted' = TRUE
                        /\ UNCHANGED pc
                ELSE /\ trace' = <<>>
                     /\ issued' = <<>>
                     /\ printed' = c.printed
                     /\ UNCHANGED <<pc, faulted>>
    /\ UNCHANGED <<ser, open, inbuf>>
    /\ UNCHANGED legacyIdle

\* response = ser.readlines(), and what the caller does with it
LegacyRead ==
    /\ pc = "l_wait"
    /\ inbuf' = <<>>
    /\ received' = StripAll(inbuf)
    /\ UNCHANGED <<command, lastOp, faulted>>
    /\ LET c == LegacyDispatch(command)
       IN  IF lastOp = "lenter"
           THEN \* lines 102-107
                /\ trace' = Append(trace, Ev("readlines", 0))
                /\ printed' = IF \E i \in DOMAIN inbuf : Strip(inbuf[i]) = OK
                              THEN <<Say("entered-command-mode", "", 0, 0, <<>>)>>
                              ELSE <<Say("entry-response", "", 0, 0, Join(StripAll(inbuf)))>>
                /\ pc' = "l_shell"
                /\ UNCHANGED <<open, ser, issued>>
           ELSE IF lastOp = "lexit"
           THEN \* line 51: break; the with-block closes the port
                /\ trace' = trace \o <<Ev("readlines", 0), Ev("close", ser)>>
                /\ open' = WithExit(open, ser)
                /\ ser' = 0
                /\ printed' = <<>>
                /\ pc' = "exited"
                /\ UNCHANGED issued
           ELSE IF Len(issued) < Len(c.requests)
           THEN \* line 82: the second request of write
                /\ trace' = trace \o <<Ev("readlines", 0)>>
                                  \o LegacyWrite(c.requests[Len(issued) + 1])
                /\ issued' = Append(issued, c.requests[Len(issued) + 1])
                /\ printed' = <<>>
                /\ UNCHANGED <<pc, open, ser>>
           ELSE /\ trace' = Append(trace, Ev("readlines", 0))
                /\ printed' = <<Say("done", "", 0, 0, Join(StripAll(inbuf)))>>
                /\ pc' = "l_shell"
                /\ UNCHANGED <<open, ser, issued>>
    /\ UNCHANGED legacyIdle

LegacyNext == LegacyOpen \/ LegacyEnter \/ LegacyEmit \/ LegacyCommand \/ LegacyRead

\* configure-rfd.py from the opening of the port to the end of its shell
SpecLegacy == Init /\ [][LegacyNext]_vars

Next == EntryNext \/ SendNext \/ MainNext

Spec == Init /\ [][Next]_vars

\* the steps the one thread of the program takes by itself inside __init__ and
\* send: its loops go round, its sleeps end
ProgramStep == EntryOpen \/ EntrySetup \/ EntryPoll \/ EntryDeadline \/ EntryExhausted
               \/ InitReturn \/ SendPoll \/ SendTimeout

\* the thread is not held up for ever
Fairness == WF_vars(ProgramStep)

\* what a modem that never ends its answer may put on the wire: whole lines, a
\* line cut short, and the terminator it may send after all
LiveLines == {D25 \o CRLF, <<"2">>, OK \o CRLF}

\* the modem answers, or not
LiveEmit == Emit(LiveLines, MaxLines)

\* a caller sends a request
LiveSend ==
    /\ pc = "ready"
    /\ setStep = 0
    /\ StartSend(ATS3Q, "send")
    /\ UNCHANGED shellVars

LiveNext == EntryNext \/ LiveSend \/ LiveEmit \/ SendPoll \/ SendTimeout

\* the client with its own steps always taken in the end; nothing is assumed
\* of the modem or of the caller
SpecLive == Init /\ [][LiveNext]_vars /\ Fairness

----------------------------------------------------------------------------
(* Properties *)

\* the session exists: __init__ returned the object
Constructed == pc \in {"ready", "recv"}

\* an exchange has just ended and nothing was called since
ExchangeEnded == pc = "ready" /\ lastOp = "send"

\* indices of the write events of a trace
Writes(tr) == {i \in DOMAIN tr : tr[i].op = "write"}

\* ticks slept in tr[i..j]
RECURSIVE SleepSum(_, _, _)
SleepSum(tr, i, j) == IF i > j THEN 0
                      ELSE (IF tr[i].op = "sleep" THEN tr[i].arg ELSE 0) + SleepSum(tr, i + 1, j)

\* tr[i..j] is a period of at least `ticks` in which nothing is written
Quiet(tr, i, j, ticks) ==
    /\ i <= j
    /\ \A k \in i..j : tr[k].op # "write"
    /\ SleepSum(tr, i, j) >= ticks

\* the modem answered OK to the first probe and enter_command_mode returned True
FirstProbeAnswered == pc = "entered" /\ attemptsMade = 1 /\ Contains(probeResponse, OK)

(* C1: once construction has succeeded and until close() is called, self.serial
   is the handle on which command mode was entered, that handle is open, and
   no send() opens another one. *)
C1_HandleKept ==
    (Constructed /\ ~closeCalled) =>
        (serial = entryHandle /\ serial \in open /\ ~reopened)

(* C2: when no probe response ever matches, construction makes exactly
   max_attempts entry attempts, then raises; no session object exists and no
   transport handle is left open, neither between attempts nor at the end. *)
C2_EntryBudget ==
    /\ (pc = "loop" /\ ~matched) => (open = {} /\ attemptsMade = attempt)
    /\ pc = "failed" =>
          /\ ~matched /\ entered = 0
          /\ attemptsMade = max_attempts
          /\ constructed = Raised("ATRuntimeError", EntryFailedMsg)
          /\ serial = 0
          /\ open = {}

\* a silent port: three deadlines elapsed, construction failed
C2_Witness ==
    /\ pc = "failed" /\ ~faulted /\ attemptsMade = 3
    /\ trace # <<>> /\ trace[Len(trace)] = Ev("sleep", Backoff)

(* C3 as stated: when the first probe is answered OK, command mode is entered
   exactly once and a quiet period of at least 1 s, the write of '+++' and a
   second quiet period of at least 1 s precede, in this order, the write of
   the AT probe. *)
C3_EscapeBeforeProbe ==
    FirstProbeAnswered =>
        /\ entered = 1
        /\ \E e \in Writes(trace), p \in Writes(trace) :
              /\ e < p
              /\ trace[e].arg = PLUSES
              /\ trace[p].arg = AT \o CRLF
              /\ \E i \in 1..(e - 1) : Quiet(trace, i, e - 1, 10)
              /\ \E j \in (e + 1)..(p - 1) : Quiet(trace, e + 1, j, 10)

(* C3 amended: when the first probe is answered OK, command mode is entered
   exactly once, and raising DTR, a pause of 0.1 s, dropping DTR and a second
   pause of 0.1 s precede, in this order, the write of the AT probe; the probe
   is the first and only write of the attempt, so no '+++' is written. *)
C3_DtrBeforeProbe ==
    FirstProbeAnswered =>
        /\ entered = 1
        /\ serial = entryHandle
        /\ \E p \in Writes(trace) :
              /\ Writes(trace) = {p}
              /\ trace[p].arg = AT \o CRLF
              /\ \E i, j, k, l \in 1..(p - 1) :
                    /\ i < j /\ j < k /\ k < l
                    /\ trace[i] = Ev("dtr", 1)
                    /\ trace[j].op = "sleep" /\ trace[j].arg >= DtrPause
                    /\ trace[k] = Ev("dtr", 0)
                    /\ trace[l].op = "sleep" /\ trace[l].arg >= DtrPause

\* the first probe was answered with the bytes OK in one chunk
C3_Witness == FirstProbeAnswered /\ probeResponse = OK /\ ~faulted


\* lines without the first one that equals x
RECURSIVE RemoveFirst(_, _)
RemoveFirst(lines, x) == IF lines = <<>> THEN <<>>
                         ELSE IF Head(lines) = x THEN Tail(lines)
                         ELSE <<Head(lines)>> \o RemoveFirst(Tail(lines), x)

\* everything the modem delivered in this exchange, read or still waiting
Delivered == StripAll(received \o inbuf)

\* no serial fault ended the exchange
NoFault == endClass # "transport-fault"

(* C4: in one exchange at most one received line is discarded as the echo:
   the collected response is the sequence of received lines without the first
   line equal to the request, later such lines are kept. *)
C4_EchoOnce ==
    (pc = "recv" \/ (ExchangeEnded /\ NoFault)) =>
        /\ Len(received) - Len(response) <= 1
        /\ response = RemoveFirst(StripAll(received), command)

\* [optional echo of cmd, data lines ..., 'OK'], no data line being a terminator
\* or a repetition of the request
OkStream(cmd, lines) ==
    /\ lines # <<>>
    /\ Last(lines) = OK
    /\ \A i \in 1..(Len(lines) - 1) : ~IsTerminator(lines[i])
    /\ \A i \in 2..(Len(lines) - 1) : lines[i] # cmd

\* the data lines of such a stream
DataLines(cmd, lines) ==
    IF Len(lines) > 1 /\ lines[1] = cmd THEN SubSeq(lines, 2, Len(lines) - 1)
    ELSE Front(lines)

(* C5: when the modem delivers [optional echo, data lines ..., 'OK'], all of it
   before the first poll and hence before the timeout, send returns the data
   lines joined by newline. *)
C5_OkStream ==
    (ExchangeEnded /\ NoFault /\ ~late /\ OkStream(command, Delivered)) =>
        /\ endClass = "success"
        /\ outcome = Returned(Join(DataLines(command, Delivered)))

(* C6: when the last collected line is 'ERROR', send raises the command error
   whose text carries the joined prior lines (nothing for ['ERROR'] alone) and
   returns no result; the loop never goes on after an 'ERROR' line. *)
C6_Rejected ==
    /\ pc = "recv" => \A i \in DOMAIN response : ~IsTerminator(response[i])
    /\ (ExchangeEnded /\ NoFault /\ response # <<>> /\ Last(response) = ERROR) =>
          /\ outcome = Raised("ATRuntimeError", FailedMsg(command, Join(Front(response))))
          /\ outcome.kind # "return"
          /\ endClass = "rejected"

\* the modem answered ERROR and nothing else
C6_Witness ==
    /\ ExchangeEnded /\ response = <<ERROR>>
    /\ outcome = Raised("ATRuntimeError", <<"Command '">> \o command \o <<"' failed with: ">>)

(* C7: when no 'OK' or 'ERROR' line arrives before the timeout, send does not
   raise and returns the partial lines together with an Unterminated status:
   what it returns differs from what it returns for the same lines followed
   by 'OK'. *)
C7_Unterminated ==
    (ExchangeEnded /\ endClass = "unterminated"
       /\ \A i \in DOMAIN Delivered : ~IsTerminator(Delivered[i])) =>
        /\ outcome.kind = "return"
        /\ outcome.value = Join(response)
        /\ outcome # SendResult(command, Append(response, OK))

\* response streams of at most two lines, in the buffer from the start
Streams == {<<>>} \cup {<<a>> : a \in RawLines} \cup {<<a, b>> : a \in RawLines, b \in RawLines}

(* C8: exchanges that end in different classes never look the same to the
   caller: the outcome the caller observes here differs from the one observed
   for any exchange (any request, any stream, direct or through
   get_modem_response) that ends in another class. *)
C8_Classified ==
    ExchangeEnded =>
        \A cmd \in Commands, lines \in Streams, v \in {"send", "wrapper"} :
            LET resp == Collect(cmd, lines, <<>>, 0)
            IN  (v = via /\ ClassOf(resp) # endClass) =>
                    Visible(v, cmd, SendResult(cmd, resp)) # visible

\* a rejected or unterminated exchange has just ended
SoftFailed == ExchangeEnded /\ endClass \in {"rejected", "unterminated"}

(* C9: after a rejected or unterminated exchange the handle of the session is
   open, and the next send is issued on that same handle without opening the
   port: it clears the input, writes the request and flushes, or ends with a
   port error at one of these steps. *)
C9_Recoverable ==
    [][ SoftFailed =>
          /\ serial \in open
          /\ lastOp' = "send" =>
                /\ serial' = serial /\ open' = open /\ ~reopened'
                /\ \A i \in DOMAIN trace' : trace'[i].op # "open"
                /\ pc' = "recv" => trace' = SendSequence(command')
                /\ pc' = "ready" => endClass' = "transport-fault" ]_vars

\* a send issued right after a rejected or unterminated one ended in success
C9_Witness ==
    /\ ExchangeEnded /\ afterSoft /\ endClass = "success" /\ ~reopened
    /\ serial \in open

(* C10: a serial exception in any phase reaches the caller as the port error
   and invalidates the session: construction does not end in the entry error
   or in a usable session, and no later send reaches the port. *)
C10_FaultInvalidates ==
    /\ (pc = "failed" /\ faulted) => constructed.exc = "ATSerialPortError"
    /\ pc = "entered" => ~faulted
    /\ pc = "recv" => ~faulted

----------------------------------------------------------------------------
\* the release events of a trace
Releases(tr) == {i \in DOMAIN tr : tr[i].op = "close"}

\* C11: teardown of a session in Command state writes ATO to the port before the
\* handle is released (and does not raise whatever the answer).
C11_AtoBeforeRelease ==
    (lastOp \in {"close", "exit"} /\ Releases(trace) # {}) =>
        \E j \in Releases(trace) : \E i \in Writes(trace) :
            i < j /\ trace[i].arg = ATO \o CRLF

\* C16: at every point at most one handle is open, and none is open once main
\* has returned, whichever way the session ended.
C16_HandleReleased ==
    /\ Cardinality(open) <= 1
    /\ pc = "exited" => open = {}

\* C16 witness: a session whose handle was open ended and cleanup released it
C16_Witness == pc = "exited" /\ lastOp \in {"exit", "interrupt"} /\ closeCalled
               /\ Releases(trace) # {}

\* C17: close() on a handle that is already closed or was never set releases
\* nothing and changes nothing; any close() releases at most once, does not
\* raise, and leaves the handle closed.
C17_CloseIdempotent ==
    [][ (pc = "ready" /\ pc' = "ready" /\ lastOp' = "close") =>
          /\ serial' \notin open'
          /\ Cardinality(Releases(trace')) <= 1
          /\ (serial = 0 \/ serial \notin open) => (trace' = <<>> /\ open' = open)
          /\ outcome' = outcome ]_vars

\* C17 witness: the handle a send had opened was closed, then close() ran again
C17_Witness == pc = "ready" /\ lastOp = "close" /\ reopened /\ trace = <<>>
               /\ serial # 0 /\ serial \notin open

\* C19: every entry attempt after the first starts only after a backoff of at
\* least one second without a write, whatever ended the attempt before it.
C19_BackoffAlways ==
    [][ (attemptsMade' = attemptsMade + 1 /\ attemptsMade >= 1) => slept >= Backoff ]_vars

\* the read events of a trace
Reads(tr) == {i \in DOMAIN tr : tr[i].op = "read"}

\* C20: an attempt succeeds exactly when the bytes accumulated over its polls
\* contain OK or RFD SiK, also when the token arrives in two chunks; an attempt
\* without a match ends at the deadline; only bytes of the attempt itself are
\* accumulated.
C20_ProbeMatch ==
    /\ pc = "probe" => (~ProbeMatched(probeResponse) /\ probeResponse \o rxbytes = sent)
    /\ pc = "entered" => (ProbeMatched(probeResponse) /\ probeResponse = sent)
    /\ (pc = "loop" /\ slept = Backoff) =>
          (elapsed >= ProbeDeadline /\ ~ProbeMatched(probeResponse))

\* C20 witness: a later attempt matched on a token read in two chunks, after an
\* attempt that had read bytes and ran into the deadline
C20_Witness ==
    /\ pc = "entered" /\ attemptsMade >= 2 /\ ~faulted
    /\ Cardinality(Reads(trace)) = 2
    /\ probeResponse \in {OK, RFDSiK}

\* C18: the register indices are pairwise different and are exactly 0..18, the
\* constraints table has one entry for each register and no other, and every
\* entry has min_val <= default_val <= max_val.
C18_Catalog ==
    /\ \A a, b \in RegisterNames : SRegisters[a] = SRegisters[b] => a = b
    /\ {SRegisters[a] : a \in RegisterNames} = 0..18
    /\ DOMAIN PARAMETER_CONSTRAINTS = RegisterNames
    /\ \A a \in RegisterNames :
          /\ PARAMETER_CONSTRAINTS[a].min_val <= PARAMETER_CONSTRAINTS[a].default_val
          /\ PARAMETER_CONSTRAINTS[a].default_val <= PARAMETER_CONSTRAINTS[a].max_val
    /\ setStep # 0 => setReg \in RegisterNames

\* C18 witness: do_set found NETID in the catalog and passed its range check
C18_Witness == setStep = 1 /\ setReg = "NETID" /\ pc = "recv"

\* the requests a set of register `name` to `v` has to issue
ExpectedRequests(name, v) ==
    << <<"A", "T", "S">> \o IntToStr(SRegisters[name]) \o <<"=">> \o IntToStr(v),
       <<"A", "T", "&", "W">>,
       <<"A", "T", "S">> \o IntToStr(SRegisters[name]) \o <<"?">> >>

\* C13: for a catalog parameter and a value within its range do_set issues
\* ATS{n}={v}, AT&W, ATS{n}? in this order with n the index of the parameter,
\* each written to the port as issued, and all three when every answer is OK;
\* for NETID and 5 these are ATS3=5, AT&W, ATS3?.
C13_ThreeRequests ==
    /\ issued # <<>> =>
          /\ setReg \in RegisterNames
          /\ PARAMETER_CONSTRAINTS[setReg].min_val <= setVal
          /\ setVal <= PARAMETER_CONSTRAINTS[setReg].max_val
          /\ Len(issued) <= 3
          /\ \A k \in 1..Len(issued) : issued[k] = ExpectedRequests(setReg, setVal)[k]
    /\ (setStep \in 1..3 /\ pc = "recv") =>
          /\ Len(issued) = setStep
          /\ Cardinality(Writes(trace)) = 1
          /\ \A i \in Writes(trace) : trace[i].arg = issued[setStep] \o CRLF
    /\ (setStep = 0 /\ issued # <<>> /\ allOK) => Len(issued) = 3
    /\ (Len(issued) = 3 /\ setReg = "NETID" /\ setVal = 5) =>
          issued = << <<"A", "T", "S", "3", "=", "5">>, <<"A", "T", "&", "W">>,
                      <<"A", "T", "S", "3", "?">> >>
    /\ (Len(issued) = 3 /\ setReg = "TXPOWER" /\ setVal = 30) =>
          issued = << <<"A", "T", "S", "4", "=", "3", "0">>, <<"A", "T", "&", "W">>,
                      <<"A", "T", "S", "4", "?">> >>

\* C13 witness: set NETID 5 ran to its end with OK after every request
C13_Witness ==
    /\ pc = "ready" /\ setStep = 0 /\ allOK /\ Len(issued) = 3
    /\ setReg = "NETID" /\ setVal = 5 /\ printed # <<>>

\* a set command has run to the end of its read-back
SetDone == pc = "ready" /\ setStep = 0 /\ Len(issued) = 3 /\ lastOp = "send"

\* C14: when the read-back differs from the requested value a verification
\* warning is printed and no error; when it equals the requested value no
\* warning is printed.
C14_VerifyWarning ==
    (SetDone /\ visible.kind = "return" /\ visible.value # <<>>) =>
        /\ (visible.value # IntToStr(setVal)) <=>
               (\E i \in DOMAIN printed : printed[i].kind = "verification-warning")
        /\ \A i \in DOMAIN printed : printed[i].kind # "error"

\* C15: when the first request of a set command is answered ERROR, do_set
\* returns at once: nothing more is issued or written, and the rejection is
\* printed.
C15_RejectAborts ==
    [][ (pc = "ready" /\ setStep = 1 /\ endClass = "rejected") =>
          /\ setStep' = 0
          /\ issued' = issued
          /\ trace' = trace
          /\ pc' = "ready"
          /\ printed' = <<Say("error", "", 0, 0, FailedMsg(issued[1], Join(Front(response))))>>
      ]_vars

\* C15 witness: set ended after its first request, which the modem rejected
C15_Witness ==
    /\ pc = "ready" /\ setStep = 0 /\ Len(issued) = 1 /\ endClass = "rejected"
    /\ printed # <<>> /\ printed[1].kind = "error"
    /\ Cardinality(Writes(trace)) = 1

\* the typed set command names no catalog parameter or a value that is not an
\* integer within the bounds of its entry
InvalidSet(typed) ==
    LET w == Words(typed)
    IN  /\ Len(w) = 3
        /\ Lower(w[1]) = <<"s", "e", "t">>
        /\ \/ Upper(w[2]) \notin RegisterNames
           \/ ~ParseInt(w[3]).ok
           \/ ParseInt(w[3]).val < PARAMETER_CONSTRAINTS[Upper(w[2])].min_val
           \/ ParseInt(w[3]).val > PARAMETER_CONSTRAINTS[Upper(w[2])].max_val

\* C12: a set command with an unknown name or an out-of-range value writes
\* nothing to the port and is answered with an error message (citing the
\* bounds of the entry when the name is known), in the older front end too.
C12_InvalidRejected ==
    (lastOp = "lset" /\ InvalidSet(command)) =>
        /\ Writes(trace) = {}
        /\ issued = <<>>
        /\ pc = "l_shell" => (printed # <<>> /\ printed[1].kind \in {"error", "out-of-range"})

\* an exchange begins: the front end goes from idle to waiting for an answer
ExchangeBegins == pc \in {"ready", "l_shell"} /\ pc' \in {"recv", "l_wait"}

\* tr clears the input, then writes req and CRLF, then flushes, and does
\* nothing else with the port but open it first
ClearWriteFlush(tr, req) ==
    \E i \in DOMAIN tr :
        /\ i + 2 = Len(tr)
        /\ tr[i] = Ev("reset_input_buffer", 0)
        /\ tr[i + 1] = Ev("write", req \o CRLF)
        /\ tr[i + 2] = Ev("flush", 0)
        /\ \A k \in 1..(i - 1) : tr[k].op = "open"

\* C21: every exchange clears the pending input, writes the request and CRLF,
\* flushes and only then reads, so that no line that was in the input buffer
\* when the exchange began is left to be read as part of its answer.
C21_ClearBeforeWrite ==
    [][ ExchangeBegins =>
          /\ inbuf' = <<>>
          /\ \E req \in {command'} \cup {issued'[k] : k \in DOMAIN issued'} :
                ClearWriteFlush(trace', req) ]_vars

\* C22: no wait is unbounded: the clock of a send never passes the per-command
\* timeout and every send returns or raises; the clock of an entry attempt
\* never passes the probe deadline, there are at most max_attempts attempts,
\* and enter_command_mode returns, whatever the modem sends or does not send.
C22_BoundedWaits ==
    /\ [](pc = "recv" => elapsed <= DefaultTimeout)
    /\ [](pc = "probe" => (elapsed <= ProbeDeadline /\ attemptsMade <= max_attempts))
    /\ (pc = "recv") ~> (pc \in {"ready", "exited"})
    /\ (pc \in {"loop", "setup", "probe"}) ~> (pc \in {"entered", "failed", "exited"})

\* C22 witness: a send to a modem that kept sending lines without a terminator
\* returned when the timeout had elapsed
C22_Witness ==
    /\ pc = "ready" /\ lastOp = "send" /\ endClass = "unterminated"
    /\ elapsed >= DefaultTimeout /\ response # <<>> /\ ~faulted

\* C23: when the first request of a set command succeeded and AT&W is answered
\* ERROR, do_set prints the failure and returns: no success message, and no
\* further request, so none that rewrites or undoes the register.
C23_PersistRejected ==
    [][ (pc = "ready" /\ setStep = 2 /\ allOK /\ endClass = "rejected") =>
          /\ setStep' = 0
          /\ issued' = issued
          /\ issued' = <<ExpectedRequests(setReg, setVal)[1], <<"A", "T", "&", "W">> >>
          /\ trace' = trace
          /\ pc' = "ready"
          /\ printed' # <<>>
          /\ \A i \in DOMAIN printed' :
                /\ printed'[i].kind = "error"
                /\ printed'[i].text = FailedMsg(<<"A", "T", "&", "W">>, Join(Front(response)))
      ]_vars

\* C23 witness: set ended after AT&W, which the modem rejected after it had
\* accepted the new value
C23_Witness ==
    /\ pc = "ready" /\ setStep = 0 /\ Len(issued) = 2 /\ endClass = "rejected"
    /\ command = <<"A", "T", "&", "W">>
    /\ printed # <<>> /\ printed[1].kind = "error"

\* the events of a trace that open the port
Opens(tr) == {i \in DOMAIN tr : tr[i].op = "open"}

\* C24: once close() has been called the object leaves the port alone: no
\* handle is open, and a later send neither opens the port nor writes to it.
C24_ClosedStaysClosed ==
    (closeCalled /\ pc # "exited") =>
        /\ open = {}
        /\ lastOp = "send" => (Opens(trace) = {} /\ Writes(trace) = {})

\* C25: send stops collecting at the first OK or ERROR line: the collected
\* lines hold at most one terminator and it is the last of them, nothing is
\* read after it, and what the modem sends after it is no part of the result.
C25_StopsAtTerminator ==
    /\ \A i \in DOMAIN response :
          response[i] \in {<<"O", "K">>, <<"E", "R", "R", "O", "R">>} => i = Len(response)
    /\ \A i \in DOMAIN received :
          Strip(received[i]) \in {<<"O", "K">>, <<"E", "R", "R", "O", "R">>}
              => (i = Len(received) /\ pc # "recv")
    /\ (ExchangeEnded /\ endClass = "success") =>
          (response # <<>> /\ outcome = Returned(Join(Front(response))))

\* C25 witness: the modem sent more after OK; send returned the lines before
\* OK and left the rest unread
C25_Witness ==
    /\ ExchangeEnded /\ endClass = "success" /\ Len(response) >= 2
    /\ inbuf # <<>>
====
